---- MODULE Spec2Model ----
(***************************************************************************)
(* Margin protocol of laminar-chain: position valuation, swap accrual,     *)
(* trader margin account, liquidity pool solvency and the safety gate, as  *)
(* exercised by modules/margin-protocol/src/tests.rs.                      *)
(*                                                                         *)
(* Fixed128 is modelled as an integer number of parts with DIV parts per   *)
(* unit (the pallet uses 10^18; the model uses 100 so that one part is one *)
(* "natural currency cent" and a percent threshold is a whole number).     *)
(***************************************************************************)
EXTENDS Integers, Sequences, FiniteSets, TLC

\* ------------------------------------------------------------------------
\* Bounds of the model
\* ------------------------------------------------------------------------

\* number of position ids the storage may hold
MaxPositions == 2

\* ------------------------------------------------------------------------
\* Fixed-point numeric core
\* ------------------------------------------------------------------------

\* parts per unit of a Fixed128 (scaled down from 10^18)
DIV == 100

\* Fixed128::max_value()
Fixed128Max == 2147483647

Abs(x) == IF x < 0 THEN -x ELSE x

\* integer division rounding toward zero, as i128 division does
TruncDiv(a, b) == IF (a < 0) = (b < 0) THEN Abs(a) \div Abs(b) ELSE -(Abs(a) \div Abs(b))

\* Fixed128::from_natural
from_natural(n) == n * DIV

\* fixed128_from_natural_currency_cent / balance_from_natural_currency_cent
from_natural_currency_cent(n) == (n * DIV) \div 100

\* Permill::from_percent(p) converted into a Fixed128
percent_to_fixed(p) == (p * DIV) \div 100

\* Fixed128 multiplication
fixed_mul(a, b) == TruncDiv(a * b, DIV)

\* Fixed128 checked_div: None on a zero divisor
checked_div(a, b) ==
    IF b = 0 THEN [some |-> FALSE, val |-> 0] ELSE [some |-> TRUE, val |-> TruncDiv(a * DIV, b)]

\* Option::unwrap_or
unwrap_or(option, default) == IF option.some THEN option.val ELSE default

\* Result values
Ok(v) == [ok |-> TRUE, val |-> v, err |-> "None"]
Err(e) == [ok |-> FALSE, val |-> 0, err |-> e]

\* ------------------------------------------------------------------------
\* Identifiers
\* ------------------------------------------------------------------------

Traders == {"ALICE", "BOB"}
Pools == {"MOCK_POOL", "POOL_2"}
Currencies == {"AUSD", "FEUR", "FJPY"}

EUR_JPY_PAIR == [base |-> "FJPY", quote |-> "FEUR"]
EUR_USD_PAIR == [base |-> "AUSD", quote |-> "FEUR"]
Pairs == {EUR_USD_PAIR, EUR_JPY_PAIR}

PositionIds == 0 .. (MaxPositions - 1)

\* the absent price of the price source (get_price returning None)
NoPrice == -1

is_long(leverage) == leverage \in {"LongTwo", "LongFive", "LongTen", "LongTwenty", "LongFifty"}

\* ------------------------------------------------------------------------
\* Positions used as inputs (scaled after the fixtures of the tests)
\* ------------------------------------------------------------------------

Position(owner, pool, pair, leverage, held, debits, held_usd, open_rate, margin) ==
    [owner |-> owner, pool |-> pool, pair |-> pair, leverage |-> leverage,
     leveraged_held |-> held, leveraged_debits |-> debits,
     leveraged_held_in_usd |-> held_usd,
     open_accumulated_swap_rate |-> open_rate, open_margin |-> margin]

\* Option::None for a position
NoPosition == Position("nobody", "nopool", EUR_USD_PAIR, "None", 0, 0, 0, 0, 0)

\* the position of ensure_trader_safe_works / ensure_pool_safe_works
test_position ==
    Position("ALICE", "MOCK_POOL", EUR_USD_PAIR, "LongTwo",
             from_natural_currency_cent(100), from_natural_currency_cent(100),
             from_natural_currency_cent(100), from_natural(1),
             from_natural_currency_cent(100))

\* a long EUR/USD position: held > 0, debits < 0, opened above the current rate
eur_usd_long ==
    Position("ALICE", "MOCK_POOL", EUR_USD_PAIR, "LongFive",
             from_natural(2), from_natural_currency_cent(-240),
             from_natural_currency_cent(-240), from_natural_currency_cent(110),
             from_natural_currency_cent(50))

\* a short EUR/USD position: held < 0, debits > 0, opened below the current rate
eur_usd_short ==
    Position("ALICE", "MOCK_POOL", EUR_USD_PAIR, "ShortTen",
             from_natural(-2), from_natural_currency_cent(220),
             from_natural_currency_cent(220), from_natural_currency_cent(90),
             from_natural_currency_cent(40))

\* a long EUR/JPY position of ALICE on the second pool
eur_jpy_long ==
    Position("ALICE", "POOL_2", EUR_JPY_PAIR, "LongTwenty",
             from_natural(1), from_natural_currency_cent(-250),
             from_natural_currency_cent(-120), from_natural(1),
             from_natural_currency_cent(60))

\* a short EUR/JPY position, the counterpart of eur_jpy_long
eur_jpy_short ==
    Position("ALICE", "POOL_2", EUR_JPY_PAIR, "ShortTwenty",
             from_natural(-1), from_natural_currency_cent(250),
             from_natural_currency_cent(120), from_natural(1),
             from_natural_currency_cent(60))

\* a short EUR/USD position of another trader on MOCK_POOL
bob_short ==
    Position("BOB", "MOCK_POOL", EUR_USD_PAIR, "ShortTen",
             from_natural(-1), from_natural_currency_cent(110),
             from_natural_currency_cent(110), from_natural(1),
             from_natural_currency_cent(30))

\* positions that get stored
StoredPositions == {test_position, eur_usd_long, eur_usd_short, eur_jpy_long, bob_short}

\* positions that get valued on their own
ValuedPositions == StoredPositions \cup {eur_jpy_short}

\* a long EUR/USD position whose exposure offsets that of test_position
eur_usd_long_offset ==
    Position("ALICE", "MOCK_POOL", EUR_USD_PAIR, "LongTen",
             from_natural(1), from_natural_currency_cent(-100),
             from_natural_currency_cent(-100), from_natural(1),
             from_natural_currency_cent(10))

\* new positions handed to margin_level / enp_and_ell and the gates
NewPositions == {test_position, eur_usd_long, eur_usd_short, eur_usd_long_offset}

\* Option<Position> of a call by a trader: None or a new position of that trader
NewPositionsOf(who) == {NoPosition} \cup {p \in NewPositions : p.owner = who}

\* Option<Position> of a call on a pool: None or a new position on that pool
NewPositionsOn(pool) == {NoPosition} \cup {p \in NewPositions : p.pool = pool}

\* ------------------------------------------------------------------------
\* State
\* ------------------------------------------------------------------------

VARIABLES
    Positions,                  \* PositionId -> Position (NoPosition: no entry)
    PositionsByTrader,          \* <<trader, pool>> -> sequence of ids
    PositionsByPool,            \* <<pool, pair>> -> sequence of ids
    Balances,                   \* trader -> balance
    TraderRiskThreshold,        \* RiskThreshold in percent
    LiquidityPoolENPThreshold,  \* RiskThreshold in percent
    LiquidityPoolELLThreshold,  \* RiskThreshold in percent
    prices,                     \* currency -> price in USD, or NoPrice
    spread,                     \* bid/ask spread in percent
    accumulated_swap_rates,     \* pair -> accumulated swap rate
    pool_liquidity,             \* pool -> liquidity
    result                      \* the last call and what it returned

vars == <<Positions, PositionsByTrader, PositionsByPool, Balances,
          TraderRiskThreshold, LiquidityPoolENPThreshold, LiquidityPoolELLThreshold,
          prices, spread, accumulated_swap_rates, pool_liquidity, result>>

storage == <<Positions, PositionsByTrader, PositionsByPool, Balances>>

config == <<TraderRiskThreshold, LiquidityPoolENPThreshold, LiquidityPoolELLThreshold,
            prices, spread, accumulated_swap_rates, pool_liquidity>>

risk_threshold(margin_call_percent, stop_out_percent) ==
    [margin_call |-> margin_call_percent, stop_out |-> stop_out_percent]

NoCall == [op |-> "none", who |-> "nobody", new_position |-> NoPosition, value |-> Ok(0)]

Call(op, who, new_position, value) ==
    [op |-> op, who |-> who, new_position |-> new_position, value |-> value]

\* ------------------------------------------------------------------------
\* Price resolver
\* ------------------------------------------------------------------------

\* price of a trading pair: price(quote) / price(base), NoPrice if either is missing
\* (EUR/JPY = 140 from FJPY = 1/110 and FEUR = 140/110)
_price(pair) ==
    IF prices[pair.quote] = NoPrice \/ prices[pair.base] = NoPrice
    THEN Err("NoPrice")
    ELSE LET q == checked_div(prices[pair.quote], prices[pair.base])
         IN  IF q.some THEN Ok(q.val) ELSE Err("NumOutOfBound")

\* the spread amount taken from a price
spread_of(price) == fixed_mul(price, percent_to_fixed(spread))

\* bid price: the price less the spread
_bid_price(pair) ==
    LET r == _price(pair) IN IF r.ok THEN Ok(r.val - spread_of(r.val)) ELSE r

\* ask price: the price plus the spread
_ask_price(pair) ==
    LET r == _price(pair) IN IF r.ok THEN Ok(r.val + spread_of(r.val)) ELSE r

\* value of an amount of a currency in the reference currency (USD)
_usd_value(currency, amount) ==
    IF prices[currency] = NoPrice THEN Err("NoPrice")
    ELSE Ok(fixed_mul(amount, prices[currency]))

\* ------------------------------------------------------------------------
\* Position valuer
\* ------------------------------------------------------------------------

\* the price a position was opened at: |leveraged_debits / leveraged_held|
open_price(position) ==
    Abs(unwrap_or(checked_div(position.leveraged_debits, position.leveraged_held), 0))

\* closing_price with the sides of the spread exchanged
closing_price_swapped(position) ==
    IF is_long(position.leverage) THEN _ask_price(position.pair) ELSE _bid_price(position.pair)

\* the price a position would close at: bid for a long, ask for a short
closing_price(position) ==
    IF is_long(position.leverage) THEN _bid_price(position.pair) ELSE _ask_price(position.pair)

\* _unrealized_pl_of_position multiplying by the size held whatever its side
unrealized_pl_of_absolute_held(position) ==
    LET curr_price == closing_price(position) IN
    IF ~curr_price.ok THEN curr_price
    ELSE LET price_delta == curr_price.val - open_price(position)
             unrealized == fixed_mul(Abs(position.leveraged_held), price_delta)
         IN  _usd_value(position.pair.base, unrealized)

\* unrealized profit or loss of a position, in USD
_unrealized_pl_of_position(position) ==
    LET curr_price == closing_price(position) IN
    IF ~curr_price.ok THEN curr_price
    ELSE LET price_delta == curr_price.val - open_price(position)
             unrealized == fixed_mul(position.leveraged_held, price_delta)
         IN  _usd_value(position.pair.base, unrealized)

\* _accumulated_swap_rate_of_position multiplying by the signed leveraged_held
accumulated_swap_rate_signed(position) ==
    LET rate == accumulated_swap_rates[position.pair] - position.open_accumulated_swap_rate
    IN  Ok(fixed_mul(position.leveraged_held, rate))

\* swap accrued by a position since it was opened
_accumulated_swap_rate_of_position(position) ==
    LET rate == accumulated_swap_rates[position.pair] - position.open_accumulated_swap_rate
    IN  Ok(fixed_mul(Abs(position.leveraged_held), rate))

\* ------------------------------------------------------------------------
\* Aggregation over stored positions
\* ------------------------------------------------------------------------

PoolOrder == <<"MOCK_POOL", "POOL_2">>
PairOrder == <<EUR_USD_PAIR, EUR_JPY_PAIR>>

\* the ids of a sequence that have a position in storage, as positions
RECURSIVE stored(_)
stored(ids) ==
    IF ids = <<>> THEN <<>>
    ELSE IF Positions[Head(ids)] = NoPosition THEN stored(Tail(ids))
         ELSE <<Positions[Head(ids)]>> \o stored(Tail(ids))

\* positions_of_trader that stops after the first pool
positions_of_trader_first_pool(who) == stored(PositionsByTrader[<<who, PoolOrder[1]>>])

\* every position listed for a trader, over all pools
positions_of_trader(who) ==
    stored(PositionsByTrader[<<who, PoolOrder[1]>>] \o PositionsByTrader[<<who, PoolOrder[2]>>])

\* every position listed for a pool, over all pairs
positions_of_pool(pool) ==
    stored(PositionsByPool[<<pool, PairOrder[1]>>] \o PositionsByPool[<<pool, PairOrder[2]>>])

\* try_sum that passes over the results that are errors
RECURSIVE try_sum_skipping_errors(_, _)
try_sum_skipping_errors(results, acc) ==
    IF results = <<>> THEN Ok(acc)
    ELSE IF ~Head(results).ok THEN try_sum_skipping_errors(Tail(results), acc)
         ELSE try_sum_skipping_errors(Tail(results), acc + Head(results).val)

\* try_fold of a checked sum over results: the first error ends the fold
RECURSIVE try_sum(_, _)
try_sum(results, acc) ==
    IF results = <<>> THEN Ok(acc)
    ELSE IF ~Head(results).ok THEN Head(results)
         ELSE try_sum(Tail(results), acc + Head(results).val)

\* plain sum of a sequence of numbers
RECURSIVE sum(_)
sum(values) == IF values = <<>> THEN 0 ELSE Head(values) + sum(Tail(values))

\* the new position of a call as a sequence: empty for None
new_position_seq(new_position) ==
    IF new_position = NoPosition THEN <<>> ELSE <<new_position>>

\* ------------------------------------------------------------------------
\* Trader margin account
\* ------------------------------------------------------------------------

_unrealized_pl_of_trader(who) ==
    LET ps == positions_of_trader(who) IN
    try_sum([i \in 1 .. Len(ps) |-> _unrealized_pl_of_position(ps[i])], 0)

_accumulated_swap_rate_of_trader(who) ==
    LET ps == positions_of_trader(who) IN
    try_sum([i \in 1 .. Len(ps) |-> _accumulated_swap_rate_of_position(ps[i])], 0)

_margin_held(who) ==
    LET ps == positions_of_trader(who) IN
    sum([i \in 1 .. Len(ps) |-> ps[i].open_margin])

\* _free_balance without the clamp at zero
free_balance_unclamped(who) == Balances[who] - _margin_held(who)

_free_balance(who) ==
    IF Balances[who] >= _margin_held(who) THEN Balances[who] - _margin_held(who) ELSE 0

_equity_of_trader(who) ==
    LET pl == _unrealized_pl_of_trader(who)
        swap == _accumulated_swap_rate_of_trader(who)
    IN  IF ~pl.ok THEN pl
        ELSE IF ~swap.ok THEN swap
        ELSE Ok(Balances[who] + pl.val + swap.val)

\* _margin_level that leaves the new position out of the denominator
margin_level_ignoring_new(who, new_position) ==
    LET equity == _equity_of_trader(who)
        ps == positions_of_trader(who)
        leveraged_held_in_usd == sum([i \in 1 .. Len(ps) |-> Abs(ps[i].leveraged_held_in_usd)])
    IN  IF ~equity.ok THEN equity
        ELSE Ok(unwrap_or(checked_div(equity.val, leveraged_held_in_usd), Fixed128Max))

\* _margin_level that answers zero when there is nothing to divide by
margin_level_zero_default(who, new_position) ==
    LET equity == _equity_of_trader(who)
        ps == positions_of_trader(who) \o new_position_seq(new_position)
        leveraged_held_in_usd == sum([i \in 1 .. Len(ps) |-> Abs(ps[i].leveraged_held_in_usd)])
    IN  IF ~equity.ok THEN equity
        ELSE Ok(unwrap_or(checked_div(equity.val, leveraged_held_in_usd), 0))

_margin_level(who, new_position) ==
    LET equity == _equity_of_trader(who)
        ps == positions_of_trader(who) \o new_position_seq(new_position)
        leveraged_held_in_usd == sum([i \in 1 .. Len(ps) |-> Abs(ps[i].leveraged_held_in_usd)])
    IN  IF ~equity.ok THEN equity
        ELSE Ok(unwrap_or(checked_div(equity.val, leveraged_held_in_usd), Fixed128Max))

\* _ensure_trader_safe with the boundary on the safe side
ensure_trader_safe_strict(who, new_position) ==
    LET margin_level == _margin_level(who, new_position) IN
    IF ~margin_level.ok THEN margin_level
    ELSE IF margin_level.val < percent_to_fixed(TraderRiskThreshold.margin_call)
         THEN IF new_position # NoPosition THEN Err("TraderWouldBeUnsafe") ELSE Err("UnsafeTrader")
         ELSE Ok(0)

\* _ensure_trader_safe that does not look at whether a new position was given
ensure_trader_safe_one_error(who, new_position) ==
    LET margin_level == _margin_level(who, new_position) IN
    IF ~margin_level.ok THEN margin_level
    ELSE IF margin_level.val <= percent_to_fixed(TraderRiskThreshold.margin_call)
         THEN Err("TraderWouldBeUnsafe")
         ELSE Ok(0)

_ensure_trader_safe(who, new_position) ==
    LET margin_level == _margin_level(who, new_position) IN
    IF ~margin_level.ok THEN margin_level
    ELSE IF margin_level.val <= percent_to_fixed(TraderRiskThreshold.margin_call)
         THEN IF new_position # NoPosition THEN Err("TraderWouldBeUnsafe") ELSE Err("UnsafeTrader")
         ELSE Ok(0)

\* ------------------------------------------------------------------------
\* Liquidity pool solvency
\* ------------------------------------------------------------------------

\* _equity_of_pool taking the side of the traders
equity_of_pool_added(pool) ==
    LET ps == positions_of_pool(pool)
        pl == try_sum([i \in 1 .. Len(ps) |-> _unrealized_pl_of_position(ps[i])], 0)
        swap == try_sum([i \in 1 .. Len(ps) |-> _accumulated_swap_rate_of_position(ps[i])], 0)
    IN  IF ~pl.ok THEN pl
        ELSE IF ~swap.ok THEN swap
        ELSE Ok(pool_liquidity[pool] + pl.val + swap.val)

_equity_of_pool(pool) ==
    LET ps == positions_of_pool(pool)
        pl == try_sum([i \in 1 .. Len(ps) |-> _unrealized_pl_of_position(ps[i])], 0)
        swap == try_sum([i \in 1 .. Len(ps) |-> _accumulated_swap_rate_of_position(ps[i])], 0)
    IN  IF ~pl.ok THEN pl
        ELSE IF ~swap.ok THEN swap
        ELSE Ok(pool_liquidity[pool] - pl.val - swap.val)

\* net_position that adds up the sizes of the positions whatever their side
net_position_gross(positions) ==
    sum([i \in 1 .. Len(positions) |-> Abs(positions[i].leveraged_held_in_usd)])

\* net position of a pool: the signed sum of leveraged_held_in_usd
net_position(positions) ==
    sum([i \in 1 .. Len(positions) |-> positions[i].leveraged_held_in_usd])

\* longest_leg that looks at the positive side only
longest_leg_positive_only(positions) ==
    sum([i \in 1 .. Len(positions) |->
           IF positions[i].leveraged_held_in_usd > 0
           THEN positions[i].leveraged_held_in_usd ELSE 0])

\* longest leg of a pool: the larger of the positive and the negative side
longest_leg(positions) ==
    LET positive == sum([i \in 1 .. Len(positions) |->
                           IF positions[i].leveraged_held_in_usd > 0
                           THEN positions[i].leveraged_held_in_usd ELSE 0])
        negative == sum([i \in 1 .. Len(positions) |->
                           IF positions[i].leveraged_held_in_usd < 0
                           THEN positions[i].leveraged_held_in_usd ELSE 0])
    IN  IF positive >= Abs(negative) THEN positive ELSE Abs(negative)

\* (ENP, ELL) of a pool, with an optional new position
_enp_and_ell(pool, new_position) ==
    LET equity == _equity_of_pool(pool)
        ps == positions_of_pool(pool) \o new_position_seq(new_position)
    IN  IF ~equity.ok THEN equity
        ELSE Ok(<<unwrap_or(checked_div(equity.val, Abs(net_position(ps))), Fixed128Max),
                  unwrap_or(checked_div(equity.val, longest_leg(ps)), Fixed128Max)>>)

\* _ensure_pool_safe that rejects only when both ratios are at or below their thresholds
ensure_pool_safe_both(pool, new_position) ==
    LET enp_and_ell == _enp_and_ell(pool, new_position) IN
    IF ~enp_and_ell.ok THEN enp_and_ell
    ELSE IF /\ enp_and_ell.val[1] <= percent_to_fixed(LiquidityPoolENPThreshold.margin_call)
            /\ enp_and_ell.val[2] <= percent_to_fixed(LiquidityPoolELLThreshold.margin_call)
         THEN IF new_position # NoPosition THEN Err("PoolWouldBeUnsafe") ELSE Err("UnsafePool")
         ELSE Ok(0)

_ensure_pool_safe(pool, new_position) ==
    LET enp_and_ell == _enp_and_ell(pool, new_position) IN
    IF ~enp_and_ell.ok THEN enp_and_ell
    ELSE IF \/ enp_and_ell.val[1] <= percent_to_fixed(LiquidityPoolENPThreshold.margin_call)
            \/ enp_and_ell.val[2] <= percent_to_fixed(LiquidityPoolELLThreshold.margin_call)
         THEN IF new_position # NoPosition THEN Err("PoolWouldBeUnsafe") ELSE Err("UnsafePool")
         ELSE Ok(0)

\* ------------------------------------------------------------------------
\* Inputs of the environment (the ExtBuilder of the tests)
\* ------------------------------------------------------------------------

\* prices of FEUR in USD: none, 1/1 and 12/10
FeurPrices == {NoPrice, from_natural_currency_cent(100), from_natural_currency_cent(120)}

\* spreads in percent
Spreads == {0, 10}

\* accumulated swap rates of EUR/USD
SwapRates == {from_natural(1), from_natural_currency_cent(110)}

\* balances put into storage
BalanceValues == {1, from_natural_currency_cent(100), from_natural_currency_cent(200)}

\* margin_call thresholds in percent
ThresholdPercents == {0, 99, 100}

\* pool liquidities
Liquidities == {from_natural_currency_cent(100), from_natural_currency_cent(300)}

\* the price of FJPY in USD, when there is one
FjpyPrice == from_natural_currency_cent(50)

\* prices of FEUR and FJPY of the trader and pool tests: either may be missing
PricesOrNone ==
    {<<NoPrice, FjpyPrice>>, <<from_natural(1), FjpyPrice>>, <<from_natural(1), NoPrice>>}

\* storage and configuration right after ExtBuilder::default().build()
InitStorage ==
    /\ Positions = [id \in PositionIds |-> NoPosition]
    /\ PositionsByTrader = [k \in Traders \X Pools |-> <<>>]
    /\ PositionsByPool = [k \in Pools \X Pairs |-> <<>>]
    /\ Balances = [t \in Traders |-> 0]
    /\ result = NoCall

InitThresholds ==
    /\ TraderRiskThreshold = risk_threshold(100, 0)
    /\ LiquidityPoolENPThreshold = risk_threshold(99, 0)
    /\ LiquidityPoolELLThreshold = risk_threshold(99, 0)

\* .price(..), .spread(..), .accumulated_swap_rate(..), .pool_liquidity(..)
\* (the first argument is a set of pairs: the price of FEUR and the price of FJPY)
InitEnvironment(feur_and_fjpy_prices, spreads, swap_rates, liquidities) ==
    /\ \E pair \in feur_and_fjpy_prices :
         prices = [c \in Currencies |->
                     IF c = "AUSD" THEN from_natural(1)
                     ELSE IF c = "FEUR" THEN pair[1]
                     ELSE pair[2]]
    /\ spread \in spreads
    /\ \E r \in swap_rates :
         accumulated_swap_rates = [pr \in Pairs |-> IF pr = EUR_USD_PAIR THEN r ELSE from_natural(1)]
    /\ \E l \in liquidities :
         pool_liquidity = [pl \in Pools |-> IF pl = "MOCK_POOL" THEN l ELSE from_natural_currency_cent(200)]

\* ------------------------------------------------------------------------
\* Storage writes made by the tests
\* ------------------------------------------------------------------------

\* the first id without a position
free_ids == {id \in PositionIds : Positions[id] = NoPosition}
next_id == CHOOSE id \in free_ids : \A other \in free_ids : id <= other

\* Positions::insert, PositionsByTrader::insert and PositionsByPool::insert of one position
OpenPosition(position) ==
    /\ free_ids # {}
    /\ Positions' = [Positions EXCEPT ![next_id] = position]
    /\ PositionsByTrader' =
         [PositionsByTrader EXCEPT ![<<position.owner, position.pool>>] = Append(@, next_id)]
    /\ PositionsByPool' =
         [PositionsByPool EXCEPT ![<<position.pool, position.pair>>] = Append(@, next_id)]
    /\ result' = NoCall
    /\ UNCHANGED <<Balances, config>>

\* Balances::insert
SetBalance(who, balance) ==
    /\ Balances[who] # balance
    /\ Balances' = [Balances EXCEPT ![who] = balance]
    /\ result' = NoCall
    /\ UNCHANGED <<Positions, PositionsByTrader, PositionsByPool, config>>

\* TraderRiskThreshold::put
SetTraderRiskThreshold(percent) ==
    /\ TraderRiskThreshold.margin_call # percent
    /\ TraderRiskThreshold' = risk_threshold(percent, 0)
    /\ result' = NoCall
    /\ UNCHANGED <<storage, LiquidityPoolENPThreshold, LiquidityPoolELLThreshold,
                   prices, spread, accumulated_swap_rates, pool_liquidity>>

\* LiquidityPoolENPThreshold::put
SetENPThreshold(percent) ==
    /\ LiquidityPoolENPThreshold.margin_call # percent
    /\ LiquidityPoolENPThreshold' = risk_threshold(percent, 0)
    /\ result' = NoCall
    /\ UNCHANGED <<storage, TraderRiskThreshold, LiquidityPoolELLThreshold,
                   prices, spread, accumulated_swap_rates, pool_liquidity>>

\* LiquidityPoolELLThreshold::put
SetELLThreshold(percent) ==
    /\ LiquidityPoolELLThreshold.margin_call # percent
    /\ LiquidityPoolELLThreshold' = risk_threshold(percent, 0)
    /\ result' = NoCall
    /\ UNCHANGED <<storage, TraderRiskThreshold, LiquidityPoolENPThreshold,
                   prices, spread, accumulated_swap_rates, pool_liquidity>>

\* ------------------------------------------------------------------------
\* Calls into the module: each records what it returned
\* ------------------------------------------------------------------------

\* Returns that leaves the new position of the call in storage
ReturnsAndStores(call) ==
    /\ result = NoCall
    /\ result' = call
    /\ Positions' = IF call.new_position # NoPosition /\ free_ids # {}
                    THEN [Positions EXCEPT ![next_id] = call.new_position]
                    ELSE Positions
    /\ UNCHANGED <<PositionsByTrader, PositionsByPool, Balances, config>>

\* A call reads storage and configuration and writes neither, so a call made
\* right after another returns what it would have returned in its place: calls
\* are taken from the states the storage writes leave.
Returns(call) == result = NoCall /\ result' = call /\ UNCHANGED <<storage, config>>

CallUnrealizedPlOfPosition(position) ==
    Returns(Call("unrealized_pl_of_position", "nobody", position,
                 _unrealized_pl_of_position(position)))

CallAccumulatedSwapRateOfPosition(position) ==
    Returns(Call("accumulated_swap_rate_of_position", "nobody", position,
                 _accumulated_swap_rate_of_position(position)))

CallUnrealizedPlOfTrader(who) ==
    Returns(Call("unrealized_pl_of_trader", who, NoPosition, _unrealized_pl_of_trader(who)))

CallAccumulatedSwapRateOfTrader(who) ==
    Returns(Call("accumulated_swap_rate_of_trader", who, NoPosition,
                 _accumulated_swap_rate_of_trader(who)))

CallMarginHeld(who) ==
    Returns(Call("margin_held", who, NoPosition, Ok(_margin_held(who))))

CallFreeBalance(who) ==
    Returns(Call("free_balance", who, NoPosition, Ok(_free_balance(who))))

CallEquityOfTrader(who) ==
    Returns(Call("equity_of_trader", who, NoPosition, _equity_of_trader(who)))

CallMarginLevel(who, new_position) ==
    Returns(Call("margin_level", who, new_position, _margin_level(who, new_position)))

CallEnsureTraderSafe(who, new_position) ==
    Returns(Call("ensure_trader_safe", who, new_position, _ensure_trader_safe(who, new_position)))

CallEquityOfPool(pool) ==
    Returns(Call("equity_of_pool", pool, NoPosition, _equity_of_pool(pool)))

CallEnpAndEll(pool, new_position) ==
    Returns(Call("enp_and_ell", pool, new_position, _enp_and_ell(pool, new_position)))

CallEnsurePoolSafe(pool, new_position) ==
    Returns(Call("ensure_pool_safe", pool, new_position, _ensure_pool_safe(pool, new_position)))

\* ------------------------------------------------------------------------
\* Specifications
\* ------------------------------------------------------------------------

\* the position valuer on its own: no storage, every price, spread and swap rate
InitValuer ==
    /\ InitStorage
    /\ InitThresholds
    /\ InitEnvironment((FeurPrices \X {FjpyPrice}) \cup {<<from_natural(1), NoPrice>>},
                       Spreads, SwapRates \cup {from_natural_currency_cent(90)},
                       {from_natural_currency_cent(100)})

NextValuer ==
    \/ \E position \in ValuedPositions : CallUnrealizedPlOfPosition(position)
    \/ \E position \in ValuedPositions : CallAccumulatedSwapRateOfPosition(position)

SpecValuer == InitValuer /\ [][NextValuer]_vars

\* the trader margin account and its gate
InitTrader ==
    /\ InitStorage
    /\ InitThresholds
    /\ InitEnvironment(PricesOrNone, Spreads, SwapRates,
                       {from_natural_currency_cent(100)})

NextTrader ==
    \/ \E position \in StoredPositions : OpenPosition(position)
    \/ \E balance \in BalanceValues : SetBalance("ALICE", balance)
    \/ \E percent \in ThresholdPercents : SetTraderRiskThreshold(percent)
    \/ \E position \in ValuedPositions : CallAccumulatedSwapRateOfPosition(position)
    \/ \E who \in Traders : CallUnrealizedPlOfTrader(who)
    \/ \E who \in Traders : CallAccumulatedSwapRateOfTrader(who)
    \/ \E who \in Traders : CallMarginHeld(who)
    \/ \E who \in Traders : CallFreeBalance(who)
    \/ \E who \in Traders : CallEquityOfTrader(who)
    \/ \E who \in Traders : \E new_position \in NewPositionsOf(who) : CallMarginLevel(who, new_position)
    \/ \E who \in Traders : \E new_position \in NewPositionsOf(who) : CallEnsureTraderSafe(who, new_position)

SpecTrader == InitTrader /\ [][NextTrader]_vars

\* the liquidity pool solvency and its gate
InitPool ==
    /\ InitStorage
    /\ InitThresholds
    /\ InitEnvironment(PricesOrNone, {0}, SwapRates, Liquidities)

NextPool ==
    \/ \E position \in StoredPositions : OpenPosition(position)
    \/ SetBalance("ALICE", from_natural_currency_cent(100))
    \/ \E percent \in ThresholdPercents : SetENPThreshold(percent)
    \/ \E percent \in ThresholdPercents : SetELLThreshold(percent)
    \/ \E pool \in Pools : CallEquityOfPool(pool)
    \/ \E pool \in Pools : \E new_position \in NewPositionsOn(pool) : CallEnpAndEll(pool, new_position)
    \/ \E pool \in Pools : \E new_position \in NewPositionsOn(pool) : CallEnsurePoolSafe(pool, new_position)
    \/ \E who \in Traders : CallEquityOfTrader(who)

SpecPool == InitPool /\ [][NextPool]_vars

\* the gates and what they are computed from, for traders and pools together
InitGate ==
    /\ InitStorage
    /\ InitThresholds
    /\ InitEnvironment(PricesOrNone, {0}, {from_natural(1)}, {from_natural_currency_cent(100)})

NextGate ==
    \/ \E position \in StoredPositions : OpenPosition(position)
    \/ SetBalance("ALICE", from_natural_currency_cent(200))
    \/ \E who \in Traders : CallUnrealizedPlOfTrader(who)
    \/ \E who \in Traders : CallEquityOfTrader(who)
    \/ \E who \in Traders : \E new_position \in NewPositionsOf(who) : CallMarginLevel(who, new_position)
    \/ \E who \in Traders : \E new_position \in NewPositionsOf(who) : CallEnsureTraderSafe(who, new_position)
    \/ \E pool \in Pools : CallEquityOfPool(pool)
    \/ \E pool \in Pools : \E new_position \in NewPositionsOn(pool) : CallEnpAndEll(pool, new_position)
    \/ \E pool \in Pools : \E new_position \in NewPositionsOn(pool) : CallEnsurePoolSafe(pool, new_position)

SpecGate == InitGate /\ [][NextGate]_vars

\* ------------------------------------------------------------------------
\* Properties
\* ------------------------------------------------------------------------

margin_call_of(threshold) == percent_to_fixed(threshold.margin_call)

\* f[0] + ... + f[n] for a function f over the position ids
RECURSIVE range_sum(_, _)
range_sum(f, n) == IF n < 0 THEN 0 ELSE f[n] + range_sum(f, n - 1)

\* the sum of f[id] over the ids whose position satisfies the test (a function to BOOLEAN)
sum_where(test, f) ==
    range_sum([id \in PositionIds |->
                 IF Positions[id] # NoPosition /\ test[id] THEN f[id] ELSE 0],
              MaxPositions - 1)

on_pool(pool) == [id \in PositionIds |-> Positions[id].pool = pool]
owned_by(who) == [id \in PositionIds |-> Positions[id].owner = who]

\* C1: with a new position, ensure_trader_safe returns TraderWouldBeUnsafe
\* whenever the margin level with that position is at or below the trader
\* margin_call threshold (equality is unsafe), and Ok whenever it is strictly
\* above.
C1_TraderWouldBeUnsafe ==
    (result.op = "ensure_trader_safe" /\ result.new_position # NoPosition) =>
        LET level == _margin_level(result.who, result.new_position) IN
        level.ok =>
            /\ level.val <= margin_call_of(TraderRiskThreshold)
                 => result.value = Err("TraderWouldBeUnsafe")
            /\ level.val > margin_call_of(TraderRiskThreshold)
                 => result.value = Ok(0)

\* a call with a new position whose margin level equals the threshold was rejected
C1_Witness ==
    /\ result.op = "ensure_trader_safe"
    /\ result.new_position = test_position
    /\ _margin_level(result.who, result.new_position) = Ok(margin_call_of(TraderRiskThreshold))
    /\ TraderRiskThreshold.margin_call = 100
    /\ result.value = Err("TraderWouldBeUnsafe")

\* C2: without a new position, ensure_trader_safe returns UnsafeTrader, never
\* TraderWouldBeUnsafe, whenever the margin level over the stored positions is
\* at or below the current threshold, and Ok whenever it is strictly above: the
\* outcome follows the threshold stored at the time of the call.
C2_UnsafeTrader ==
    (result.op = "ensure_trader_safe" /\ result.new_position = NoPosition) =>
        LET level == _margin_level(result.who, NoPosition) IN
        /\ result.value # Err("TraderWouldBeUnsafe")
        /\ level.ok =>
             /\ level.val <= margin_call_of(TraderRiskThreshold)
                  => result.value = Err("UnsafeTrader")
             /\ level.val > margin_call_of(TraderRiskThreshold)
                  => result.value = Ok(0)

\* a trader with a stored position at 100% was accepted under the 99% threshold
\* (the same storage is rejected under the 100% threshold)
C2_Witness ==
    /\ result.op = "ensure_trader_safe"
    /\ result.new_position = NoPosition
    /\ positions_of_trader(result.who) # <<>>
    /\ _margin_level(result.who, NoPosition) = Ok(from_natural(1))
    /\ TraderRiskThreshold.margin_call = 99
    /\ result.value = Ok(0)

\* C3: ensure_pool_safe rejects if ENP is at or below the ENP threshold or ELL
\* is at or below the ELL threshold, whatever the other ratio is, and accepts
\* only when both are strictly above; the rejection is PoolWouldBeUnsafe with a
\* new position and UnsafePool without.
C3_EnsurePoolSafe ==
    result.op = "ensure_pool_safe" =>
        LET ratios == _enp_and_ell(result.who, result.new_position)
            rejection == IF result.new_position # NoPosition
                         THEN Err("PoolWouldBeUnsafe") ELSE Err("UnsafePool")
        IN  ratios.ok =>
              /\ ratios.val[1] <= margin_call_of(LiquidityPoolENPThreshold)
                   => result.value = rejection
              /\ ratios.val[2] <= margin_call_of(LiquidityPoolELLThreshold)
                   => result.value = rejection
              /\ ( /\ ratios.val[1] > margin_call_of(LiquidityPoolENPThreshold)
                   /\ ratios.val[2] > margin_call_of(LiquidityPoolELLThreshold) )
                   => result.value = Ok(0)

\* a pool whose ELL alone is at or below its threshold was rejected without a new position
C3_Witness ==
    /\ result.op = "ensure_pool_safe"
    /\ result.new_position = NoPosition
    /\ _enp_and_ell(result.who, NoPosition).ok
    /\ _enp_and_ell(result.who, NoPosition).val[1] > margin_call_of(LiquidityPoolENPThreshold)
    /\ _enp_and_ell(result.who, NoPosition).val[2] <= margin_call_of(LiquidityPoolELLThreshold)
    /\ result.value = Err("UnsafePool")

\* the longest leg of a pool with a new position, summed over storage by pool
leg_of(pool, new_position) ==
    LET usd(p) == p.leveraged_held_in_usd
        positive == sum_where(on_pool(pool),
                              [id \in PositionIds |->
                                 IF usd(Positions[id]) > 0 THEN usd(Positions[id]) ELSE 0])
                    + (IF usd(new_position) > 0 THEN usd(new_position) ELSE 0)
        negative == sum_where(on_pool(pool),
                              [id \in PositionIds |->
                                 IF usd(Positions[id]) < 0 THEN -usd(Positions[id]) ELSE 0])
                    + (IF usd(new_position) < 0 THEN -usd(new_position) ELSE 0)
    IN  IF positive >= negative THEN positive ELSE negative

\* C4 (as the code has it): the ELL ratio returned by enp_and_ell is
\* equity_of_pool divided by the longest leg of the pool, the larger of the sum
\* of the positive and the sum of the negative leveraged_held_in_usd over the
\* pool's positions and the new position if any, and the maximum value when the
\* pool has no leg; the pool's liquidity enters only through the equity.
C4_EllOverLongestLeg ==
    (result.op = "enp_and_ell" /\ result.value.ok) =>
        LET equity == _equity_of_pool(result.who)
            leg == leg_of(result.who, result.new_position)
        IN  result.value.val[2] =
                IF leg = 0 THEN Fixed128Max ELSE TruncDiv(equity.val * DIV, leg)

\* C4 as claimed: ELL is equity_of_pool divided by the pool's liquidity
\* (stated for pools that have a position or are given one)
C4_EllOverLiquidity ==
    ( /\ result.op = "enp_and_ell"
      /\ result.value.ok
      /\ leg_of(result.who, result.new_position) # 0 ) =>
        result.value.val[2] =
            TruncDiv(_equity_of_pool(result.who).val * DIV, pool_liquidity[result.who])

\* enp_and_ell returned for a pool with a long and a short leg whose longest
\* leg differs from its liquidity
C4_Witness ==
    /\ result.op = "enp_and_ell"
    /\ result.value.ok
    /\ \E i, j \in PositionIds :
         /\ Positions[i].pool = result.who /\ Positions[i].leveraged_held_in_usd > 0
         /\ Positions[j].pool = result.who /\ Positions[j].leveraged_held_in_usd < 0
    /\ leg_of(result.who, result.new_position) # pool_liquidity[result.who]
    /\ result.value.val[2] # Fixed128Max

\* the swap a position accrued, by direction: the rate difference times the size held
swap_of(position) ==
    LET rate == accumulated_swap_rates[position.pair] - position.open_accumulated_swap_rate
    IN  IF position.leveraged_held >= 0
        THEN fixed_mul(rate, position.leveraged_held)
        ELSE fixed_mul(rate, -position.leveraged_held)

\* C5 (as the code has it): accumulated_swap_rate of a position is the current
\* accumulated swap rate of its pair minus its open_accumulated_swap_rate,
\* multiplied by the absolute value of leveraged_held, for long and short
\* alike, so the sign of the result is the sign of the rate difference;
\* accumulated_swap_rate_of_trader is the sum of these over the trader's
\* positions.
C5_SwapByAbsoluteHeld ==
    /\ result.op = "accumulated_swap_rate_of_position"
         => result.value = Ok(swap_of(result.new_position))
    /\ result.op = "accumulated_swap_rate_of_trader"
         => result.value =
              Ok(sum_where(owned_by(result.who),
                           [id \in PositionIds |-> swap_of(Positions[id])]))

\* C5 as claimed: the rate difference multiplied by the signed leveraged_held
C5_SwapBySignedHeld ==
    result.op = "accumulated_swap_rate_of_position" =>
        result.value =
            Ok(fixed_mul(accumulated_swap_rates[result.new_position.pair]
                           - result.new_position.open_accumulated_swap_rate,
                         result.new_position.leveraged_held))

\* the swap of a trader holding a long and a short position was summed while
\* the rate had moved away from the short position's open rate
C5_Witness ==
    /\ result.op = "accumulated_swap_rate_of_trader"
    /\ \E i, j \in PositionIds :
         /\ Positions[i].owner = result.who /\ Positions[i].leveraged_held > 0
         /\ Positions[j].owner = result.who /\ Positions[j].leveraged_held < 0
         /\ swap_of(Positions[j]) > 0
         /\ swap_of(Positions[i]) < 0
    /\ result.value.ok

\* the closing price of a position, from the prices and the spread
closing_of(position) ==
    LET price == TruncDiv(prices[position.pair.quote] * DIV, prices[position.pair.base])
        spread_amount == TruncDiv(price * percent_to_fixed(spread), DIV)
    IN  IF position.leveraged_held > 0 THEN price - spread_amount ELSE price + spread_amount

\* C6 (as the code has it): unrealized_pl of a position is leveraged_held times
\* the closing price less the cost basis taken with the sign of leveraged_held
\* (|leveraged_debits| for a long, -|leveraged_debits| for a short), which is
\* leveraged_held * (closing price - |leveraged_debits / leveraged_held|),
\* converted into USD at the price of the currency the pair is priced in; the
\* closing price is the bid for a long and the ask for a short.
C6_UnrealizedPl ==
    ( /\ result.op = "unrealized_pl_of_position"
      /\ prices[result.new_position.pair.quote] # NoPrice
      /\ prices[result.new_position.pair.base] # NoPrice ) =>
        LET p == result.new_position
            basis == IF p.leveraged_held > 0
                     THEN Abs(p.leveraged_debits) ELSE -Abs(p.leveraged_debits)
            unrealized == fixed_mul(p.leveraged_held, closing_of(p)) - basis
        IN  result.value = Ok(fixed_mul(unrealized, prices[p.pair.base]))

\* C6 as claimed: leveraged_held times the closing price minus leveraged_debits
C6_HeldTimesPriceMinusDebits ==
    ( /\ result.op = "unrealized_pl_of_position"
      /\ prices[result.new_position.pair.quote] # NoPrice
      /\ prices[result.new_position.pair.base] # NoPrice ) =>
        LET p == result.new_position
            unrealized == fixed_mul(p.leveraged_held, closing_of(p)) - p.leveraged_debits
        IN  result.value = Ok(fixed_mul(unrealized, prices[p.pair.base]))

\* a long EUR/JPY position opened at a negative leveraged_debits was valued at
\* a loss under a spread
C6_Witness ==
    /\ result.op = "unrealized_pl_of_position"
    /\ result.new_position = eur_jpy_long
    /\ spread # 0
    /\ result.value.ok
    /\ result.value.val < 0

\* the unrealized P&L and the swap of the stored positions that pass a test
priced(test) ==
    \A id \in PositionIds :
        (Positions[id] # NoPosition /\ test[id]) => _unrealized_pl_of_position(Positions[id]).ok

pl_where(test) ==
    sum_where(test, [id \in PositionIds |->
                       IF _unrealized_pl_of_position(Positions[id]).ok
                       THEN _unrealized_pl_of_position(Positions[id]).val ELSE 0])

swap_where(test) ==
    sum_where(test, [id \in PositionIds |-> _accumulated_swap_rate_of_position(Positions[id]).val])

exposure_where(test) ==
    sum_where(test, [id \in PositionIds |-> Abs(Positions[id].leveraged_held_in_usd)])

\* a ratio, the maximum value over a zero denominator
ratio(numerator, denominator) ==
    IF denominator = 0 THEN Fixed128Max ELSE TruncDiv(numerator * DIV, denominator)

\* C7 (as the code has it): margin_level with a new position divides by the
\* sum of the absolute leveraged_held_in_usd over the trader's stored positions
\* plus the new one, but takes the equity of the stored positions only: the
\* new position's unrealized P&L and swap are not part of the numerator, and no
\* price is needed for it; the call leaves Positions, PositionsByTrader,
\* PositionsByPool and Balances as they were.
C7_MarginLevelWithNewPosition ==
    [][ ( /\ result.op = "none"
          /\ result'.op = "margin_level"
          /\ result'.new_position # NoPosition ) =>
        LET who == result'.who
            new == result'.new_position
            equity == Balances[who] + pl_where(owned_by(who)) + swap_where(owned_by(who))
            exposure == exposure_where(owned_by(who)) + Abs(new.leveraged_held_in_usd)
        IN  /\ storage' = storage
            /\ result'.value = IF priced(owned_by(who))
                               THEN Ok(ratio(equity, exposure)) ELSE Err("NoPrice") ]_vars

\* C7 as claimed: the equity also holds the new position's unrealized P&L and swap
C7_EquityIncludesNewPosition ==
    ( /\ result.op = "margin_level"
      /\ result.new_position # NoPosition
      /\ priced(owned_by(result.who))
      /\ _unrealized_pl_of_position(result.new_position).ok ) =>
        LET who == result.who
            new == result.new_position
            equity == Balances[who] + pl_where(owned_by(who)) + swap_where(owned_by(who))
                      + _unrealized_pl_of_position(new).val
                      + _accumulated_swap_rate_of_position(new).val
            exposure == exposure_where(owned_by(who)) + Abs(new.leveraged_held_in_usd)
        IN  result.value = Ok(ratio(equity, exposure))

\* the margin level of a trader with a stored position was taken with a new
\* position that has a P&L and a swap of its own
C7_Witness ==
    /\ result.op = "margin_level"
    /\ result.new_position # NoPosition
    /\ positions_of_trader(result.who) # <<>>
    /\ _unrealized_pl_of_position(result.new_position).ok
    /\ _unrealized_pl_of_position(result.new_position).val
         + _accumulated_swap_rate_of_position(result.new_position).val # 0
    /\ result.value.ok
    /\ result.value.val # Fixed128Max

\* C8: for a trader without exposure (no stored position, no new position)
\* margin_level is Ok of the maximum value for any positive balance, not a
\* division error, and ensure_trader_safe without a new position accepts the
\* trader under every margin_call threshold from 0% to 100%.
C8_NoExposureIsMax ==
    ( /\ result.new_position = NoPosition
      /\ result.who \in Traders
      /\ exposure_where(owned_by(result.who)) = 0
      /\ Balances[result.who] > 0 ) =>
        /\ result.op = "margin_level" => result.value = Ok(Fixed128Max)
        /\ result.op = "ensure_trader_safe" => result.value = Ok(0)

\* a trader with a balance and no position was accepted under the 100% threshold
C8_Witness ==
    /\ result.op = "ensure_trader_safe"
    /\ result.new_position = NoPosition
    /\ positions_of_trader(result.who) = <<>>
    /\ Balances[result.who] > 0
    /\ TraderRiskThreshold.margin_call = 100
    /\ result.value = Ok(0)

\* the margin held by a trader, summed over storage by owner
margin_of(who) == sum_where(owned_by(who), [id \in PositionIds |-> Positions[id].open_margin])

\* C9: free_balance is never negative: it is the balance minus the margin held
\* when the margin held is at most the balance and 0 otherwise, the margin held
\* being the sum of open_margin over the trader's positions in every pool.
C9_FreeBalance ==
    /\ result.op = "margin_held" => result.value = Ok(margin_of(result.who))
    /\ result.op = "free_balance" =>
         /\ result.value.ok
         /\ result.value.val >= 0
         /\ margin_of(result.who) <= Balances[result.who]
              => result.value.val = Balances[result.who] - margin_of(result.who)
         /\ margin_of(result.who) > Balances[result.who]
              => result.value.val = 0

\* the free balance of a trader whose positions in two pools lock more than
\* the balance was 0
C9_Witness ==
    /\ result.op = "free_balance"
    /\ PositionsByTrader[<<result.who, "MOCK_POOL">>] # <<>>
    /\ PositionsByTrader[<<result.who, "POOL_2">>] # <<>>
    /\ Balances[result.who] > 0
    /\ margin_of(result.who) > Balances[result.who]
    /\ result.value = Ok(0)

\* C10: equity_of_pool is the pool's liquidity minus the unrealized P&L and
\* minus the swap of every position of the pool; when the pool's positions all
\* belong to one trader whose positions are all on that pool, the equity of
\* the pool less its liquidity is the negation of the equity of the trader
\* less the balance.
C10_EquityOfPool ==
    result.op = "equity_of_pool" =>
        LET pool == result.who IN
        /\ priced(on_pool(pool)) =>
             result.value =
                 Ok(pool_liquidity[pool] - pl_where(on_pool(pool)) - swap_where(on_pool(pool)))
        /\ \A who \in Traders :
             ( /\ result.value.ok
               /\ \A id \in PositionIds :
                    Positions[id] # NoPosition =>
                        (Positions[id].pool = pool <=> Positions[id].owner = who) ) =>
                 /\ _equity_of_trader(who).ok
                 /\ result.value.val - pool_liquidity[pool]
                      = -(_equity_of_trader(who).val - Balances[who])

\* the equity of a pool with two positions of one trader, who has a balance
\* and no position elsewhere, differs from the pool's liquidity
C10_Witness ==
    /\ result.op = "equity_of_pool"
    /\ result.value.ok
    /\ Len(positions_of_pool(result.who)) >= 2
    /\ \A id \in PositionIds :
         Positions[id] # NoPosition =>
             (Positions[id].pool = result.who /\ Positions[id].owner = "ALICE")
    /\ Balances["ALICE"] > 0
    /\ result.value.val # pool_liquidity[result.who]

\* the net position of a pool with a new position, summed over storage by pool
net_of(pool, new_position) ==
    sum_where(on_pool(pool), [id \in PositionIds |-> Positions[id].leveraged_held_in_usd])
    + new_position.leveraged_held_in_usd

\* C11: the ENP ratio returned by enp_and_ell is equity_of_pool divided by the
\* absolute value of the signed sum of leveraged_held_in_usd over the pool's
\* positions and the new position if any, so that long and short positions
\* offset each other in the denominator; over a net position of zero ENP is
\* the maximum value, not an error.
C11_EnpOverNetPosition ==
    (result.op = "enp_and_ell" /\ priced(on_pool(result.who))) =>
        /\ result.value.ok
        /\ result.value.val[1] =
             ratio(pool_liquidity[result.who] - pl_where(on_pool(result.who))
                     - swap_where(on_pool(result.who)),
                   Abs(net_of(result.who, result.new_position)))

\* a stored position and a new position of the other side cancelled: ENP was
\* the maximum value while the pool had a leg
C11_Witness ==
    /\ result.op = "enp_and_ell"
    /\ result.new_position # NoPosition
    /\ positions_of_pool(result.who) # <<>>
    /\ net_of(result.who, result.new_position) = 0
    /\ leg_of(result.who, result.new_position) > 0
    /\ result.value.ok
    /\ result.value.val[1] = Fixed128Max
    /\ result.value.val[2] # Fixed128Max

counterpart(position) ==
    [position EXCEPT
        !.leverage = IF position.leveraged_held > 0 THEN "ShortTwenty" ELSE "LongTwenty",
        !.leveraged_held = -position.leveraged_held,
        !.leveraged_debits = -position.leveraged_debits,
        !.leveraged_held_in_usd = -position.leveraged_held_in_usd]

\* C13: without a spread, at any entry price and any current price, the
\* unrealized P&L of a position and that of the position of the other
\* direction (same pair, same absolute leveraged_held, same entry price) are
\* equal in magnitude and opposite in sign: they add up to zero.
C13_LongAndShortCancel ==
    ( /\ result.op = "unrealized_pl_of_position"
      /\ spread = 0
      /\ result.value.ok ) =>
        /\ _unrealized_pl_of_position(counterpart(result.new_position)).ok
        /\ result.value.val
             + _unrealized_pl_of_position(counterpart(result.new_position)).val = 0

\* the long EUR/JPY position was valued without a spread at a price away from
\* its entry price, and its short counterpart is one of the valued positions
C13_Witness ==
    /\ result.op = "unrealized_pl_of_position"
    /\ result.new_position = eur_jpy_long
    /\ counterpart(eur_jpy_long) = eur_jpy_short
    /\ spread = 0
    /\ result.value.ok
    /\ result.value.val # 0

\* the price source has no quote for the pair of a position
missing_price(position) ==
    prices[position.pair.quote] = NoPrice \/ prices[position.pair.base] = NoPrice

\* some stored position that passes the test has no price
unpriced(test) ==
    \E id \in PositionIds :
        Positions[id] # NoPosition /\ test[id] /\ missing_price(Positions[id])

TraderValuations == {"unrealized_pl_of_trader", "equity_of_trader", "margin_level"}
PoolValuations == {"equity_of_pool", "enp_and_ell"}

\* C14: when the price source has no quote for the pair of one of the
\* positions a computation goes through, unrealized_pl_of_trader, equity,
\* margin_level, equity_of_pool and enp_and_ell return NoPrice, not a sum of
\* the other positions and not a value as of a price of zero, and
\* ensure_trader_safe and ensure_pool_safe return that error, not Ok and not
\* one of the four safety errors.
C14_NoPricePropagates ==
    /\ ( /\ result.op \in TraderValuations \cup {"ensure_trader_safe"}
         /\ unpriced(owned_by(result.who)) ) =>
           (~result.value.ok /\ result.value.err = "NoPrice")
    /\ ( /\ result.op \in PoolValuations \cup {"ensure_pool_safe"}
         /\ unpriced(on_pool(result.who)) ) =>
           (~result.value.ok /\ result.value.err = "NoPrice")

\* the gate was asked about a trader who holds a position that has a price and
\* one that has none, and returned NoPrice
C14_Witness ==
    /\ result.op = "ensure_trader_safe"
    /\ \E i, j \in PositionIds :
         /\ Positions[i].owner = result.who /\ ~missing_price(Positions[i])
         /\ Positions[j].owner = result.who /\ missing_price(Positions[j])
    /\ Balances[result.who] > 0
    /\ result.value = Err("NoPrice")

\* C15: ensure_trader_safe and ensure_pool_safe leave everything as it was,
\* whether they accept or reject: Positions, PositionsByTrader,
\* PositionsByPool, Balances, the pools' liquidity and the thresholds are the
\* same after the call as before it, and a new position handed to the call is
\* not put into storage.
C15_GatesWriteNothing ==
    [][ ( /\ result.op = "none"
          /\ result'.op \in {"ensure_trader_safe", "ensure_pool_safe"} ) =>
        /\ Positions' = Positions
        /\ PositionsByTrader' = PositionsByTrader
        /\ PositionsByPool' = PositionsByPool
        /\ Balances' = Balances
        /\ pool_liquidity' = pool_liquidity
        /\ TraderRiskThreshold' = TraderRiskThreshold
        /\ LiquidityPoolENPThreshold' = LiquidityPoolENPThreshold
        /\ LiquidityPoolELLThreshold' = LiquidityPoolELLThreshold ]_vars

\* a gate accepted a new position, and the position is not in storage
C15_Witness ==
    /\ result.op \in {"ensure_trader_safe", "ensure_pool_safe"}
    /\ result.new_position # NoPosition
    /\ result.value = Ok(0)
    /\ free_ids # {}
    /\ \A id \in PositionIds : Positions[id] # result.new_position

====
